---- MODULE Spec2Model ----
(***************************************************************************)
(* Rate-of-fire detector: the signal-processing library                    *)
(* (signal-processing.js), the RateOfFireDetector pipeline                 *)
(* (rof-detector.js) and the parts of the page script (main.js) that drive *)
(* it.                                                                     *)
(*                                                                         *)
(* Number representation.  Amplitudes are fixed-point integers in units of *)
(* 1/One, so that the box kernel taps 1/k and the products sample * tap    *)
(* are exact for the sample values the model draws (multiples of every     *)
(* window length); rounding of amplitudes is not modelled.  Times are      *)
(* integers in ticks of 1/TicksPerSecond seconds, TicksPerSecond being a   *)
(* common multiple of the sample rates, so idx / sampleRate is exact;      *)
(* rates are exact fractions.  The inter-shot intervals, which diff()      *)
(* stores into a Float32Array, are rounded as float32 rounds them and held *)
(* in units of 2^-FloatUnitBits seconds.  Array indices are the 0-based    *)
(* indices of the source; At(arr, i) reads one.                            *)
(***************************************************************************)
EXTENDS Integers, Sequences, FiniteSets, TLC

VARIABLES
    \* RateOfFireDetector fields (constructor, part_000:64-79)
    peakThresholdStd, minShotSpacing, burstGapThreshold, windowSize,
    minPeakProminence, minBurstCount,
    sampleRate, audioData, envelope, shotTimes, bursts,
    \* the caller's view of the detector
    last,          \* the last method invoked and how it ended
    burstResults,  \* the value the last calculateRates returned
    summary,       \* the value the last generateSummary returned
    completed,     \* history: the stages that completed on the current input
    contextRate,   \* environment: the sample rate of the page's AudioContext
    \* a direct call of signal.findPeaks
    fpArgs, fpResult,
    \* a direct call of signal.convolve
    cvArgs, cvResult,
    \* main.js: the files held by the page's one FFmpeg instance, and the
    \* analysis runs started so far
    ffmpegFiles, runs, currentFile, currentResults,
    \* main.js: the values of the parameter inputs, the timer handle kept in
    \* reanalysisTimeout, the timers set and not yet fired or cleared, and
    \* the number of timers set so far
    uiParams, reanalysisTimeout, timers, timersSet,
    \* history: the parameter events so far, those of the current run of
    \* events each less than the delay after the one before, the time since
    \* the last parameter event, and the re-analyses started since then
    events, closeEvents, elapsed, started

vars == << peakThresholdStd, minShotSpacing, burstGapThreshold, windowSize,
           minPeakProminence, minBurstCount,
           sampleRate, audioData, envelope, shotTimes, bursts,
           last, burstResults, summary, completed, contextRate,
           fpArgs, fpResult, cvArgs, cvResult,
           ffmpegFiles, runs, currentFile, currentResults,
           uiParams, reanalysisTimeout, timers, timersSet,
           events, closeEvents, elapsed, started >>

detectorVars == << peakThresholdStd, minShotSpacing, burstGapThreshold, windowSize,
                   minPeakProminence, minBurstCount,
                   sampleRate, audioData, envelope, shotTimes, bursts,
                   last, burstResults, summary, completed, contextRate >>

callVars == << fpArgs, fpResult, cvArgs, cvResult >>

debounceVars == << uiParams, reanalysisTimeout, timers, timersSet,
                   events, closeEvents, elapsed, started >>

pageVars == << ffmpegFiles, runs, currentFile, currentResults, debounceVars >>

options == << peakThresholdStd, minShotSpacing, burstGapThreshold, windowSize,
              minPeakProminence, minBurstCount >>

----------------------------------------------------------------------------
\* Bounds of the model

\* longest sample sequence extractAudio delivers in Spec
MaxLen == 3
\* length of the impulse-train recordings of AnalyzeSpec
TrainLen == 16
\* longest data sequence handed to findPeaks in PeakSpec
MaxData == 5
\* largest data value handed to findPeaks in PeakSpec
MaxValue == 3
\* longest signal handed to convolve in ConvolveSpec and longest sample
\* sequence of EnvelopeSpec
MaxSignal == 3
\* longest kernel handed to convolve in ConvolveSpec
MaxKernel == 3
\* the number of analysis runs started in PageSpec
MaxRuns == 2
\* the number of parameter events in PageSpec
MaxEvents == 3

----------------------------------------------------------------------------
\* Number representation

\* fixed-point 1.0: divisible by every window length the model reaches
One == 6 * 6

\* sample rates the decoder may deliver (Hz, scaled down)
SampleRates == {10, 20}

\* ticks per second: the least common multiple of the sample rates
TicksPerSecond ==
    CHOOSE t \in 1..40 :
        /\ \A r \in SampleRates : t % r = 0
        /\ \A u \in 1..(t - 1) : \E r \in SampleRates : u % r # 0

\* JavaScript null, and a field holding a value
Null == << >>
Some(x) == << x >>
Val(o) == o[1]

\* arr[i] for a 0-based index i inside the array
At(arr, i) == arr[i + 1]

\* the 0-based indices of arr, ascending
Indices(arr) == [k \in 1..Len(arr) |-> k - 1]

\* Math.abs
MathAbs(x) == IF x < 0 THEN -x ELSE x

\* Math.max of two numbers
MathMax(a, b) == IF a >= b THEN a ELSE b

----------------------------------------------------------------------------
\* signal-processing.js: statistics and array operations

RECURSIVE SumSeq(_)
SumSeq(arr) ==
    IF Len(arr) = 0 THEN 0 ELSE Head(arr) + SumSeq(Tail(arr))

\* max(arr) of a non-empty array (the empty array gives -Infinity and is
\* never passed by the callers modelled here)
max(arr) ==
    CHOOSE v \in {arr[k] : k \in 1..Len(arr)} :
        \A k \in 1..Len(arr) : arr[k] <= v

min(arr) ==
    CHOOSE v \in {arr[k] : k \in 1..Len(arr)} :
        \A k \in 1..Len(arr) : arr[k] >= v

\* abs(arr): elementwise magnitude
abs(arr) == [k \in 1..Len(arr) |-> MathAbs(arr[k])]

\* ones(n)
ones(n) == [k \in 1..n |-> One]

\* divide(arr, scalar)
divide(arr, scalar) == [k \in 1..Len(arr) |-> arr[k] \div scalar]

\* halfKernel taken as floor((kernelLen - 1) / 2): the window leans right for
\* an even kernel length
convolveCentred(signal, kernel) ==
    LET signalLen == Len(signal)
        kernelLen == Len(kernel)
        halfKernel == (kernelLen - 1) \div 2
        InRange(i, j) == (i - halfKernel + j >= 0) /\ (i - halfKernel + j < signalLen)
        term(i, j) == IF InRange(i, j)
                      THEN (At(signal, i - halfKernel + j) * At(kernel, j)) \div One
                      ELSE 0
    IN  [k \in 1..signalLen |->
            SumSeq([jj \in 1..kernelLen |-> term(k - 1, jj - 1)])]

\* the sum rescaled by kernelLen / count, count being the number of taps in
\* range: an average over the taps that were used
convolveRenormalised(signal, kernel) ==
    LET signalLen == Len(signal)
        kernelLen == Len(kernel)
        halfKernel == kernelLen \div 2
        InRange(i, j) == (i - halfKernel + j >= 0) /\ (i - halfKernel + j < signalLen)
        term(i, j) == IF InRange(i, j)
                      THEN (At(signal, i - halfKernel + j) * At(kernel, j)) \div One
                      ELSE 0
        count(i) == Cardinality({j \in 0..(kernelLen - 1) : InRange(i, j)})
    IN  [k \in 1..signalLen |->
            IF count(k - 1) = 0 THEN 0
            ELSE (SumSeq([jj \in 1..kernelLen |-> term(k - 1, jj - 1)]) * kernelLen)
                     \div count(k - 1)]

\* convolve(signal, kernel, 'same'): taps whose shifted index falls outside
\* the signal are skipped
convolve(signal, kernel) ==
    LET signalLen == Len(signal)
        kernelLen == Len(kernel)
        halfKernel == kernelLen \div 2
        InRange(i, j) == (i - halfKernel + j >= 0) /\ (i - halfKernel + j < signalLen)
        term(i, j) == IF InRange(i, j)
                      THEN (At(signal, i - halfKernel + j) * At(kernel, j)) \div One
                      ELSE 0
    IN  [k \in 1..signalLen |->
            SumSeq([jj \in 1..kernelLen |-> term(k - 1, jj - 1)])]

----------------------------------------------------------------------------
\* signal-processing.js: findPeaks

\* Step 1: strict local maxima, indices 1..n-2
LocalMaximaGe(data) ==
    SelectSeq(Indices(data),
              LAMBDA i : /\ i >= 1 /\ i < Len(data) - 1
                         /\ At(data, i) >= At(data, i - 1)
                         /\ At(data, i) >= At(data, i + 1))

LocalMaxima(data) ==
    SelectSeq(Indices(data),
              LAMBDA i : /\ i >= 1 /\ i < Len(data) - 1
                         /\ At(data, i) > At(data, i - 1)
                         /\ At(data, i) > At(data, i + 1))

\* Step 2: height filter
HeightFiltered(data, height) ==
    SelectSeq(LocalMaxima(data), LAMBDA idx : At(data, idx) >= height)

\* Step 3: the left scan "for (i = idx - 1; i >= 0; i--)", started at i with
\* the running minimum leftMin
RECURSIVE LookLeft(_, _, _, _)
LookLeft(data, peakHeight, i, leftMin) ==
    IF i < 0 THEN leftMin
    ELSE LET m == IF At(data, i) < leftMin THEN At(data, i) ELSE leftMin
         IN  IF At(data, i) >= peakHeight THEN m
             ELSE LookLeft(data, peakHeight, i - 1, m)

\* Step 3: the right scan "for (i = idx + 1; i < n; i++)"
RECURSIVE LookRight(_, _, _, _)
LookRight(data, peakHeight, i, rightMin) ==
    IF i >= Len(data) THEN rightMin
    ELSE LET m == IF At(data, i) < rightMin THEN At(data, i) ELSE rightMin
         IN  IF At(data, i) >= peakHeight THEN m
             ELSE LookRight(data, peakHeight, i + 1, m)

\* the prominence measured from the lower of the two side minima
ProminenceValueLowerBase(data, idx) ==
    LET peakHeight == At(data, idx)
        leftMin == LookLeft(data, peakHeight, idx - 1, peakHeight)
        rightMin == LookRight(data, peakHeight, idx + 1, peakHeight)
    IN  peakHeight - (IF leftMin <= rightMin THEN leftMin ELSE rightMin)

\* prominenceValue of the candidate idx
ProminenceValue(data, idx) ==
    LET peakHeight == At(data, idx)
        leftMin == LookLeft(data, peakHeight, idx - 1, peakHeight)
        rightMin == LookRight(data, peakHeight, idx + 1, peakHeight)
    IN  peakHeight - MathMax(leftMin, rightMin)

\* Step 3: prominence filter.  prominence is a fixed-point fraction, so
\* prominenceValue >= prominence * maxSignal is compared at scale One
KeepProminent(data, cands, minProminence) ==
    SelectSeq(cands, LAMBDA idx : ProminenceValue(data, idx) * One >= minProminence)

ProminenceFiltered(data, height, prominence) ==
    IF prominence > 0
    THEN KeepProminent(data, HeightFiltered(data, height), prominence * max(data))
    ELSE HeightFiltered(data, height)

RemoveAt(s, k) == [j \in 1..(Len(s) - 1) |-> IF j < k THEN s[j] ELSE s[j + 1]]

\* the heights of the candidates, in candidate order
HeightsOf(cands, data) == [k \in 1..Len(cands) |-> At(data, cands[k])]

\* the position in cands of the first candidate of height top
FirstOfHeight(cands, data, top) ==
    CHOOSE j \in 1..Len(cands) :
        /\ At(data, cands[j]) = top
        /\ \A l \in 1..(j - 1) : At(data, cands[l]) # top

\* the position in cands of the last candidate of height top
LastOfHeight(cands, data, top) ==
    CHOOSE j \in 1..Len(cands) :
        /\ At(data, cands[j]) = top
        /\ \A l \in (j + 1)..Len(cands) : At(data, cands[l]) # top

\* the candidates left in input order (no sort: a left-to-right greedy pass)
SortedByHeightUnsorted(cands, data) == cands

\* sort descending by height, equal heights in reverse input order
RECURSIVE SortedByHeightLastFirst(_, _)
SortedByHeightLastFirst(cands, data) ==
    IF Len(cands) = 0 THEN << >>
    ELSE LET k == LastOfHeight(cands, data, max(HeightsOf(cands, data)))
         IN  << cands[k] >> \o SortedByHeightLastFirst(RemoveAt(cands, k), data)

\* Step 4: .sort((a, b) => b.height - a.height); Array.prototype.sort is
\* stable, so equal heights keep their input (ascending index) order
RECURSIVE SortedByHeight(_, _)
SortedByHeight(cands, data) ==
    IF Len(cands) = 0 THEN << >>
    ELSE LET k == FirstOfHeight(cands, data, max(HeightsOf(cands, data)))
         IN  << cands[k] >> \o SortedByHeight(RemoveAt(cands, k), data)

\* Step 4: the greedy loop over sortedByHeight, peaks being the accepted so far
RECURSIVE Accept(_, _, _)
Accept(sorted, distance, peaks) ==
    IF Len(sorted) = 0 THEN peaks
    ELSE LET idx == Head(sorted)
             tooClose == \E k \in 1..Len(peaks) : MathAbs(idx - peaks[k]) < distance
         IN  Accept(Tail(sorted), distance,
                    IF tooClose THEN peaks ELSE Append(peaks, idx))

\* the accepted peaks left in acceptance order
SortByPositionSkipped(peaks) == peaks

\* peaks.sort((a, b) => a - b)
RECURSIVE SortByPosition(_)
SortByPosition(peaks) ==
    IF Len(peaks) = 0 THEN << >>
    ELSE LET k == CHOOSE j \in 1..Len(peaks) : \A l \in 1..Len(peaks) : peaks[j] <= peaks[l]
         IN  << peaks[k] >> \o SortByPosition(RemoveAt(peaks, k))

\* Steps 4 and 5 on the candidates left by the prominence filter
SelectPeaks(data, prominenceFiltered, distance) ==
    IF Len(prominenceFiltered) = 0 THEN << >>
    ELSE SortByPosition(Accept(SortedByHeight(prominenceFiltered, data),
                               distance, << >>))

\* { peaks, properties: { heights } }
WithHeights(data, peaks) ==
    [peaks |-> peaks, heights |-> HeightsOf(peaks, data)]

\* findPeaks(data, {height, distance, prominence})
findPeaks(data, height, distance, prominence) ==
    IF Len(data) < 3 THEN [peaks |-> << >>, heights |-> << >>]
    ELSE WithHeights(data,
             SelectPeaks(data, ProminenceFiltered(data, height, prominence),
                         distance))

----------------------------------------------------------------------------
\* rof-detector.js: RateOfFireDetector

Returned(op) == [op |-> op, outcome |-> "returned"]
Threw(op) == [op |-> op, outcome |-> "threw"]

\* !x for a numeric field that may be null
Falsy(o) == o = Null \/ Val(o) = 0

\* new RateOfFireDetector(options), the options drawn from opts
Constructed(opts) ==
    /\ peakThresholdStd \in opts.peakThresholdStd
    /\ minShotSpacing \in opts.minShotSpacing
    /\ burstGapThreshold \in opts.burstGapThreshold
    /\ windowSize \in opts.windowSize
    /\ minPeakProminence \in opts.minPeakProminence
    /\ minBurstCount \in opts.minBurstCount
    /\ sampleRate = Null
    /\ audioData = Null
    /\ envelope = Null
    /\ shotTimes = << >>
    /\ bursts = << >>

\* extractAudio(file, ffmpeg): the decoded first channel of the file and the
\* AudioContext's sample rate are stored
ExtractAudio(samples) ==
    /\ sampleRate' = Some(contextRate)
    /\ audioData' = Some(samples)
    /\ last' = Returned("extractAudio")
    /\ completed' = {"extractAudio"}
    /\ UNCHANGED << options, envelope, shotTimes, bursts, burstResults,
                    summary, contextRate, callVars, pageVars >>

\* the window length rounded up instead of down
WindowSamplesRoundedUp ==
    MathMax((windowSize * Val(sampleRate) + TicksPerSecond - 1) \div TicksPerSecond, 1)

\* Math.max(Math.floor(this.windowSize * this.sampleRate), 1), windowSize in ticks
WindowSamples == MathMax((windowSize * Val(sampleRate)) \div TicksPerSecond, 1)

\* the envelope calculateEnvelope builds from audioData
Envelope ==
    LET absAudio == abs(Val(audioData))
    IN  IF WindowSamples > 1
        THEN convolve(absAudio, divide(ones(WindowSamples), WindowSamples))
        ELSE absAudio

\* calculateEnvelope without the readiness check: missing audio reads as empty
CalculateEnvelopeUnchecked ==
    /\ envelope' = IF audioData = Null \/ Falsy(sampleRate) THEN Some(<< >>)
                   ELSE Some(Envelope)
    /\ last' = Returned("calculateEnvelope")
    /\ completed' = (completed \cap {"extractAudio"}) \cup {"calculateEnvelope"}
    /\ UNCHANGED << options, sampleRate, audioData, shotTimes, bursts,
                    burstResults, summary, contextRate, callVars, pageVars >>

\* calculateEnvelope()
CalculateEnvelope ==
    /\ IF audioData = Null \/ Falsy(sampleRate)
       THEN /\ last' = Threw("calculateEnvelope")
            /\ UNCHANGED << envelope, completed >>
       ELSE /\ envelope' = Some(Envelope)
            /\ last' = Returned("calculateEnvelope")
            /\ completed' = (completed \cap {"extractAudio"}) \cup {"calculateEnvelope"}
    /\ UNCHANGED << options, sampleRate, audioData, shotTimes, bursts,
                    burstResults, summary, contextRate, callVars, pageVars >>

\* whether the grid value h is at least meanLevel + peakThresholdStd * stdLevel
\* for an envelope of n samples with sum S and sum of squares Q (population
\* std, divisor n), decided in exact integer arithmetic:
\* h - S/n >= (p/One) * sqrt(Q/n - (S/n)^2)
AtLeastThreshold(h, n, S, Q, p) ==
    /\ n * h - S >= 0
    /\ (One * (n * h - S)) * (One * (n * h - S)) >= (p * p) * (n * Q - S * S)

\* the least grid value from h on that is at least the threshold, top + 1 when
\* none up to top is
RECURSIVE LeastAtLeast(_, _, _, _, _, _)
LeastAtLeast(h, top, n, S, Q, p) ==
    IF h > top \/ AtLeastThreshold(h, n, S, Q, p) THEN h
    ELSE LeastAtLeast(h + 1, top, n, S, Q, p)

\* the threshold detectPeaks hands to findPeaks as height, rounded up to the
\* amplitude grid: data[idx] >= threshold selects the same indices.  mean and
\* std of an empty envelope are 0
Threshold(env, p) ==
    IF Len(env) = 0 THEN 0
    ELSE LeastAtLeast(0, max(env), Len(env), SumSeq(env),
                      SumSeq([k \in 1..Len(env) |-> env[k] * env[k]]), p)

\* Math.floor(this.minShotSpacing * this.sampleRate), minShotSpacing in ticks
MinDistance == (minShotSpacing * Val(sampleRate)) \div TicksPerSecond

\* idx / this.sampleRate, in ticks
ToTime(idx) == (idx * TicksPerSecond) \div Val(sampleRate)

\* detectPeaks()
DetectPeaks ==
    /\ IF envelope = Null \/ Falsy(sampleRate)
       THEN /\ last' = Threw("detectPeaks")
            /\ UNCHANGED << shotTimes, completed >>
       ELSE \E found \in {findPeaks(Val(envelope),
                                     Threshold(Val(envelope), peakThresholdStd),
                                     MinDistance, minPeakProminence)} :
                /\ shotTimes' = [k \in 1..Len(found.peaks) |-> ToTime(found.peaks[k])]
                /\ last' = Returned("detectPeaks")
                /\ completed' = (completed \cap {"extractAudio", "calculateEnvelope"})
                                    \cup {"detectPeaks"}
    /\ UNCHANGED << options, sampleRate, audioData, envelope, bursts,
                    burstResults, summary, contextRate, callVars, pageVars >>

\* "gap <= this.burstGapThreshold" with the boundary excluded
ContinuesBurstStrict(gap) == gap < burstGapThreshold

\* gap <= this.burstGapThreshold: shot i continues the current burst
ContinuesBurst(gap) == gap <= burstGapThreshold

\* every closed group is kept, whatever its size
KeptAlways(currentBurst) == TRUE

\* currentBurst.length >= this.minBurstCount: a closed group is kept
Kept(currentBurst) == Len(currentBurst) >= minBurstCount

\* the group is not reset at a split: shot i is appended to the closed one
StartBurstCarry(currentBurst, i) == Append(currentBurst, i)

\* currentBurst = [i]
StartBurst(currentBurst, i) == << i >>

\* the loop "for (i = 1; i < shotTimes.length; i++)" from index i on, followed
\* by the final close; acc is this.bursts so far
RECURSIVE GroupLoop(_, _, _)
GroupLoop(i, currentBurst, acc) ==
    IF i >= Len(shotTimes)
    THEN IF Kept(currentBurst) THEN Append(acc, currentBurst) ELSE acc
    ELSE LET gap == At(shotTimes, i) - At(shotTimes, i - 1)
         IN  IF ContinuesBurst(gap)
             THEN GroupLoop(i + 1, Append(currentBurst, i), acc)
             ELSE GroupLoop(i + 1, StartBurst(currentBurst, i),
                            IF Kept(currentBurst) THEN Append(acc, currentBurst)
                            ELSE acc)

\* groupIntoBursts(): bursts are lists of 0-based indices into shotTimes
GroupIntoBursts ==
    /\ IF Len(shotTimes) = 0
       THEN UNCHANGED bursts
       ELSE bursts' = GroupLoop(1, << 0 >>, << >>)
    /\ last' = Returned("groupIntoBursts")
    /\ completed' = completed \cup {"groupIntoBursts"}
    /\ UNCHANGED << options, sampleRate, audioData, envelope, shotTimes,
                    burstResults, summary, contextRate, callVars, pageVars >>

\* the value of a read past the end of shotTimes (undefined), and of the
\* arithmetic on it (NaN); every defined time and duration is >= 0
NaN == -1

RECURSIVE GCD(_, _)
GCD(a, b) == IF b = 0 THEN a ELSE GCD(b, a % b)

\* the fraction n/d (d > 0, n >= 0) in lowest terms
Rat(n, d) == LET g == GCD(n, d) IN [num |-> n \div g, den |-> d \div g]

\* this.shotTimes[idx]
ShotTime(idx) == IF idx < Len(shotTimes) THEN At(shotTimes, idx) ELSE NaN

\* JavaScript numbers that are not finite fractions, as fractions with
\* denominator 0
NotANumber == [num |-> 0, den |-> 0]
Infinity == [num |-> 1, den |-> 0]
MinusInfinity == [num |-> -1, den |-> 0]

\* a < b on numbers held as fractions; false when either is NaN
Less(a, b) ==
    \/ a.num * b.den < b.num * a.den
    \/ (a = MinusInfinity /\ b = Infinity)

\* a + b on fractions; NaN when either is NaN (infinite operands do not occur)
Plus(a, b) ==
    IF a.den = 0 \/ b.den = 0 THEN NotANumber
    ELSE Rat(a.num * b.den + b.num * a.den, a.den * b.den)

\* a / n for a fraction a and a count n > 0
Over(a, n) == IF a.den = 0 THEN NotANumber ELSE Rat(a.num, a.den * n)

RECURSIVE Pow2(_)
Pow2(k) == IF k = 0 THEN 1 ELSE 2 * Pow2(k - 1)

\* a Float32Array element has a significand of 24 bits
SignificandBits == 24

\* float32 values are held as integers in units of 2^-FloatUnitBits seconds
FloatUnitBits == 28

\* q / d rounded to the nearest integer, ties to the even one
RoundHalfEven(q, d) ==
    LET fl == q \div d
        r == q % d
    IN  IF 2 * r < d THEN fl
        ELSE IF 2 * r > d THEN fl + 1
        ELSE IF fl % 2 = 0 THEN fl ELSE fl + 1

\* the number ticks / TicksPerSecond (seconds) as stored into a Float32Array
\* element: rounded to SignificandBits significant bits, ties to even.  k is
\* the binary exponent of the value, counted from that of the smallest value
\* whose float32 spacing is one unit
Float32(ticks) ==
    IF ticks = NaN THEN NaN
    ELSE IF ticks = 0 THEN 0
    ELSE LET shift == FloatUnitBits - (SignificandBits - 1)
             k == CHOOSE e \in 0..(30 - FloatUnitBits + shift) :
                      /\ Pow2(e) * TicksPerSecond <= ticks * Pow2(shift)
                      /\ ticks * Pow2(shift) < Pow2(e + 1) * TicksPerSecond
         IN  RoundHalfEven(ticks * Pow2(FloatUnitBits - k), TicksPerSecond) * Pow2(k)

\* diff(arr) of shot times: a Float32Array of the first differences
diff(arr) ==
    IF Len(arr) <= 1 THEN << >>
    ELSE [k \in 1..(Len(arr) - 1) |->
             IF arr[k + 1] = NaN \/ arr[k] = NaN THEN NaN
             ELSE Float32(arr[k + 1] - arr[k])]

\* the elements of a Float32Array read back as numbers
Numbers(floats) ==
    [k \in 1..Len(floats) |->
        IF floats[k] = NaN THEN NotANumber ELSE Rat(floats[k], 1)]

RECURSIVE Sum(_)
Sum(arr) == IF Len(arr) = 0 THEN Rat(0, 1) ELSE Plus(Head(arr), Sum(Tail(arr)))

\* mean(arr)
mean(arr) == IF Len(arr) = 0 THEN Rat(0, 1) ELSE Over(Sum(arr), Len(arr))

\* the loop of min(arr) from position i on with the running minVal
RECURSIVE MinLoop(_, _, _)
MinLoop(arr, i, minVal) ==
    IF i > Len(arr) THEN minVal
    ELSE MinLoop(arr, i + 1, IF Less(arr[i], minVal) THEN arr[i] ELSE minVal)

\* min(arr) on numbers: Infinity for the empty array; a NaN element is never
\* below minVal, a NaN minVal is never replaced
minNumber(arr) == IF Len(arr) = 0 THEN Infinity ELSE MinLoop(arr, 2, arr[1])

RECURSIVE MaxLoop(_, _, _)
MaxLoop(arr, i, maxVal) ==
    IF i > Len(arr) THEN maxVal
    ELSE MaxLoop(arr, i + 1, IF Less(maxVal, arr[i]) THEN arr[i] ELSE maxVal)

\* max(arr) on numbers: -Infinity for the empty array
maxNumber(arr) == IF Len(arr) = 0 THEN MinusInfinity ELSE MaxLoop(arr, 2, arr[1])

\* Array.from(arr).sort((a, b) => a - b) on finite numbers
RECURSIVE SortedNumbers(_)
SortedNumbers(arr) ==
    IF Len(arr) = 0 THEN << >>
    ELSE LET k == CHOOSE j \in 1..Len(arr) :
                      /\ \A l \in 1..Len(arr) : ~Less(arr[l], arr[j])
                      /\ \A l \in 1..(j - 1) : Less(arr[j], arr[l])
         IN  << arr[k] >> \o SortedNumbers(RemoveAt(arr, k))

\* median(arr)
median(arr) ==
    IF Len(arr) = 0 THEN Rat(0, 1)
    ELSE LET sorted == SortedNumbers(arr)
             mid == Len(sorted) \div 2
         IN  IF Len(sorted) % 2 = 0
             THEN Over(Plus(At(sorted, mid - 1), At(sorted, mid)), 2)
             ELSE At(sorted, mid)

\* std(arr), up to its magnitude: 0 when the array is empty or all its
\* elements are equal (sumSquaredDiff = 0), NaN when an element is NaN, and 1
\* for every positive value (the square root is not represented)
StdSign(arr) ==
    IF Len(arr) = 0 THEN 0
    ELSE IF \E k \in 1..Len(arr) : arr[k] = NotANumber THEN NaN
    ELSE IF \A k \in 1..Len(arr) : arr[k] = arr[1] THEN 0
    ELSE 1

\* the rate counted per shot instead of per interval
RateRpmPerShot(numShots, duration) ==
    IF duration # NaN /\ duration > 0
    THEN Rat(numShots * 60 * TicksPerSecond, duration)
    ELSE Rat(0, 1)

\* duration > 0 ? ((numShots - 1) / duration) * 60 : 0, duration in ticks
RateRpm(numShots, duration) ==
    IF duration # NaN /\ duration > 0
    THEN Rat((numShots - 1) * 60 * TicksPerSecond, duration)
    ELSE Rat(0, 1)

\* one burstInfo of calculateRates; times in ticks, rateRpm a fraction of
\* shots per minute, the interval statistics in float32 units
BurstInfo(burstIdx) ==
    LET burst == At(bursts, burstIdx)
        times == [k \in 1..Len(burst) |-> ShotTime(burst[k])]
        startTime == times[1]
        endTime == times[Len(times)]
        duration == IF startTime = NaN \/ endTime = NaN THEN NaN
                    ELSE endTime - startTime
        numShots == Len(times)
        intervals == Numbers(diff(times))
    IN  [burstNumber |-> burstIdx + 1,
         startTime |-> startTime,
         endTime |-> endTime,
         duration |-> duration,
         numShots |-> numShots,
         rateRpm |-> RateRpm(numShots, duration),
         meanInterval |-> mean(intervals),
         stdInterval |-> StdSign(intervals),
         minInterval |-> minNumber(intervals),
         maxInterval |-> maxNumber(intervals),
         shotTimes |-> times]

\* calculateRates()
CalculateRates ==
    /\ burstResults' = [k \in 1..Len(bursts) |-> BurstInfo(k - 1)]
    /\ last' = Returned("calculateRates")
    /\ completed' = completed \cup {"calculateRates"}
    /\ UNCHANGED << options, sampleRate, audioData, envelope, shotTimes, bursts,
                    summary, contextRate, callVars, pageVars >>

\* the summary generateSummary returns for no bursts
ZeroSummary ==
    [totalShots |-> 0,
     totalBursts |-> 0,
     overallRateRpm |-> Rat(0, 1),
     meanBurstRateRpm |-> Rat(0, 1),
     medianBurstRateRpm |-> Rat(0, 1),
     minBurstRateRpm |-> Rat(0, 1),
     maxBurstRateRpm |-> Rat(0, 1),
     stdBurstRateRpm |-> 0]

\* every detected shot is counted, retained or not
TotalShotsDetected(results) == Len(shotTimes)

\* burstResults.reduce((sum, b) => sum + b.numShots, 0)
TotalShots(results) == SumSeq([k \in 1..Len(results) |-> results[k].numShots])

\* allShotTimes: the shot times of the bursts, one after the other
RECURSIVE AllShotTimes(_)
AllShotTimes(results) ==
    IF Len(results) = 0 THEN << >>
    ELSE Head(results).shotTimes \o AllShotTimes(Tail(results))

\* signal.max(allShotTimes) and signal.min(allShotTimes) on times in ticks: a
\* read past the end of shotTimes (NaN here) compares false with everything,
\* so it is the result when it comes first and is skipped otherwise
TimesMax(arr) ==
    IF arr[1] = NaN THEN NaN
    ELSE CHOOSE v \in {arr[k] : k \in 1..Len(arr)} : \A k \in 1..Len(arr) : arr[k] <= v

TimesMin(arr) ==
    IF arr[1] = NaN THEN NaN
    ELSE CHOOSE v \in {arr[k] : k \in 1..Len(arr)} \ {NaN} :
             \A k \in 1..Len(arr) : arr[k] = NaN \/ v <= arr[k]

\* the pooled rate counted per shot instead of per interval
OverallRateAllShots(allShotTimes) ==
    IF Len(allShotTimes) >= 2
    THEN LET hi == TimesMax(allShotTimes)
             lo == TimesMin(allShotTimes)
         IN  IF hi = NaN \/ lo = NaN THEN NotANumber
             ELSE IF hi - lo = 0 THEN Infinity
             ELSE Rat(Len(allShotTimes) * 60 * TicksPerSecond, hi - lo)
    ELSE Rat(0, 1)

\* overallRate: ((allShotTimes.length - 1) / totalDuration) * 60 from two
\* pooled shots on, else 0
OverallRate(allShotTimes) ==
    IF Len(allShotTimes) >= 2
    THEN LET hi == TimesMax(allShotTimes)
             lo == TimesMin(allShotTimes)
         IN  IF hi = NaN \/ lo = NaN THEN NotANumber
             ELSE IF hi - lo = 0 THEN Infinity
             ELSE Rat((Len(allShotTimes) - 1) * 60 * TicksPerSecond, hi - lo)
    ELSE Rat(0, 1)

\* the summary built from a list of burst results
SummaryOf(results) ==
    LET rates == [k \in 1..Len(results) |-> results[k].rateRpm]
    IN  [totalShots |-> TotalShots(results),
         totalBursts |-> Len(results),
         overallRateRpm |-> OverallRate(AllShotTimes(results)),
         meanBurstRateRpm |-> mean(rates),
         medianBurstRateRpm |-> median(rates),
         minBurstRateRpm |-> minNumber(rates),
         maxBurstRateRpm |-> maxNumber(rates),
         stdBurstRateRpm |-> StdSign(rates)]

\* the summary computed without the check for an empty list
SummaryUnguarded(results) == SummaryOf(results)

\* the value of generateSummary(burstResults)
Summary(results) ==
    IF Len(results) = 0 THEN ZeroSummary ELSE SummaryOf(results)

\* generateSummary(burstResults), called with the list calculateRates
\* returned last (the empty list before any call)
GenerateSummary ==
    /\ summary' = Some(Summary(burstResults))
    /\ last' = Returned("generateSummary")
    /\ UNCHANGED << options, sampleRate, audioData, envelope, shotTimes, bursts,
                    burstResults, completed, contextRate, callVars, pageVars >>

----------------------------------------------------------------------------
\* main.js: the page, and extractAudio step by step.  Every analysis run has
\* a detector of its own; all runs hand the page's one FFmpeg instance to
\* extractAudio, which works on the two fixed paths below.  A file of the
\* FFmpeg file system is Null when absent and else holds the name of the
\* selected file its content was made from.

\* the two paths extractAudio uses in the FFmpeg instance's file system
FileNames == {"input", "output.wav"}

\* the delay of the re-analysis timer, in milliseconds
ReanalysisDelay == 500

\* the step of the model's clock: half the delay
ClockStep == ReanalysisDelay \div 2

\* the values of the parameter inputs (the six inputs taken as one value),
\* and the value the page is loaded with
ParamValues == {1, 2}

DefaultParams == 1

\* the page with FFmpeg loaded, no file selected yet
PageIdle ==
    /\ ffmpegFiles = [name \in FileNames |-> Null]
    /\ runs = << >>
    /\ currentFile = Null
    /\ currentResults = Null
    /\ uiParams = DefaultParams
    /\ reanalysisTimeout = Null
    /\ timers = {}
    /\ timersSet = 0
    /\ events = 0
    /\ closeEvents = 0
    /\ elapsed = ReanalysisDelay
    /\ started = 0

\* the run r moves on to step pc
Goto(r, pc) == [runs EXCEPT ![r].pc = pc]

\* analyzeRateOfFire(file) up to the first await of extractAudio: the
\* parameters are read from the inputs, a new detector is made from them and
\* analyze calls extractAudio, which awaits file.arrayBuffer()
Started(file) ==
    [file |-> file, params |-> uiParams, pc |-> "writeFile", wavData |-> Null,
     audioData |-> Null, result |-> Null]

\* handleFile(file) up to the first await of extractAudio: currentFile is
\* set, FFmpeg is loaded already, analyzeRateOfFire makes a new detector and
\* analyze calls extractAudio, which awaits file.arrayBuffer()
HandleFile(file) ==
    /\ Len(runs) + Cardinality(timers) < MaxRuns
    /\ currentFile' = Some(file)
    /\ runs' = Append(runs, Started(file))
    /\ UNCHANGED << ffmpegFiles, currentResults, detectorVars, callVars, debounceVars >>

\* await ffmpeg.writeFile('input', ...)
WriteFile(r) ==
    /\ runs[r].pc = "writeFile"
    /\ ffmpegFiles' = [ffmpegFiles EXCEPT !["input"] = Some(runs[r].file)]
    /\ runs' = Goto(r, "exec")
    /\ UNCHANGED << currentFile, currentResults, detectorVars, callVars, debounceVars >>

\* await ffmpeg.exec(['-i', 'input', ..., '-y', 'output.wav']): the audio of
\* whatever 'input' holds is written to 'output.wav'; with no 'input' the
\* command ends with a non-zero exit code, which extractAudio does not read
Exec(r) ==
    /\ runs[r].pc = "exec"
    /\ ffmpegFiles' = IF ffmpegFiles["input"] = Null THEN ffmpegFiles
                      ELSE [ffmpegFiles EXCEPT !["output.wav"] = ffmpegFiles["input"]]
    /\ runs' = Goto(r, "readFile")
    /\ UNCHANGED << currentFile, currentResults, detectorVars, callVars, debounceVars >>

\* wavData = await ffmpeg.readFile('output.wav'): rejects when the file is
\* absent, and the error ends the run in handleFile's catch
ReadFile(r) ==
    /\ runs[r].pc = "readFile"
    /\ runs' = IF ffmpegFiles["output.wav"] = Null THEN Goto(r, "failed")
               ELSE [runs EXCEPT ![r].wavData = ffmpegFiles["output.wav"],
                                 ![r].pc = "decodeAudioData"]
    /\ UNCHANGED << ffmpegFiles, currentFile, currentResults, detectorVars, callVars, debounceVars >>

\* await audioContext.decodeAudioData(wavData.buffer), then this.audioData =
\* audioBuffer.getChannelData(0) on the run's detector
DecodeAudioData(r) ==
    /\ runs[r].pc = "decodeAudioData"
    /\ runs' = [runs EXCEPT ![r].audioData = runs[r].wavData,
                            ![r].pc = "deleteInput"]
    /\ UNCHANGED << ffmpegFiles, currentFile, currentResults, detectorVars, callVars, debounceVars >>

\* await ffmpeg.deleteFile(name), then on to step next: rejects when the
\* file is absent
DeleteFile(r, name, next) ==
    /\ IF ffmpegFiles[name] = Null
       THEN /\ runs' = Goto(r, "failed")
            /\ UNCHANGED ffmpegFiles
       ELSE /\ ffmpegFiles' = [ffmpegFiles EXCEPT ![name] = Null]
            /\ runs' = Goto(r, next)
    /\ UNCHANGED << currentFile, currentResults, detectorVars, callVars, debounceVars >>

\* await ffmpeg.deleteFile('input')
DeleteInput(r) ==
    /\ runs[r].pc = "deleteInput"
    /\ DeleteFile(r, "input", "deleteOutput")

\* await ffmpeg.deleteFile('output.wav')
DeleteOutput(r) ==
    /\ runs[r].pc = "deleteOutput"
    /\ DeleteFile(r, "output.wav", "pipeline")

\* the rest of analyze (calculateEnvelope to generateSummary, synchronous, on
\* the run's own detector) and currentResults = await detector.analyze(...):
\* the result names the run's file and the detector's parameters and is
\* computed from the detector's samples
Results(r) ==
    [inputFile |-> runs[r].file, parameters |-> runs[r].params,
     samplesOf |-> Val(runs[r].audioData)]

Finish(r) ==
    /\ runs[r].pc = "pipeline"
    /\ runs' = [runs EXCEPT ![r].result = Some(Results(r)), ![r].pc = "done"]
    /\ currentResults' = Some(Results(r))
    /\ UNCHANGED << ffmpegFiles, currentFile, detectorVars, callVars, debounceVars >>

\* the smaller of two numbers
Least(a, b) == IF a < b THEN a ELSE b

\* scheduleReanalysis without the clearTimeout
TimeoutKept == timers

\* scheduleReanalysis: if (reanalysisTimeout) clearTimeout(reanalysisTimeout);
\* the timers still set afterwards (clearing a timer that has fired or was
\* cleared before does nothing)
ClearedTimeout ==
    IF reanalysisTimeout = Null THEN timers
    ELSE {t \in timers : t.id # Val(reanalysisTimeout)}

\* scheduleReanalysis(): nothing without a current file; else the timer in
\* reanalysisTimeout is cleared and a new one is set, due after the delay
scheduleReanalysis ==
    IF currentFile = Null
    THEN UNCHANGED << reanalysisTimeout, timers, timersSet >>
    ELSE /\ Len(runs) < MaxRuns
         /\ timersSet' = timersSet + 1
         /\ timers' = ClearedTimeout \cup {[id |-> timersSet + 1, left |-> ReanalysisDelay]}
         /\ reanalysisTimeout' = Some(timersSet + 1)

\* the history of a parameter event
ParameterEvent ==
    /\ events < MaxEvents
    /\ events' = events + 1
    /\ closeEvents' = IF elapsed < ReanalysisDelay THEN closeEvents + 1 ELSE 1
    /\ elapsed' = 0
    /\ started' = 0

\* an 'input' event of a parameter input: its value has changed, and the
\* listener calls scheduleReanalysis
InputEvent(value) ==
    /\ value # uiParams
    /\ uiParams' = value
    /\ scheduleReanalysis
    /\ ParameterEvent
    /\ UNCHANGED << ffmpegFiles, runs, currentFile, currentResults, detectorVars, callVars >>

\* a 'blur' event of a parameter input: the listener calls scheduleReanalysis
BlurEvent ==
    /\ scheduleReanalysis
    /\ ParameterEvent
    /\ UNCHANGED << ffmpegFiles, runs, currentFile, currentResults, uiParams,
                    detectorVars, callVars >>

\* time passes by one step of the clock while a timer is running or the last
\* parameter event is less than the delay ago
Tick ==
    /\ elapsed < ReanalysisDelay \/ \E t \in timers : t.left > 0
    /\ elapsed' = Least(elapsed + ClockStep, ReanalysisDelay)
    /\ timers' = {[id |-> t.id, left |-> t.left - Least(t.left, ClockStep)] : t \in timers}
    /\ UNCHANGED << ffmpegFiles, runs, currentFile, currentResults, uiParams,
                    reanalysisTimeout, timersSet, events, closeEvents, started,
                    detectorVars, callVars >>

\* the timer t is due and its callback runs up to the first await of
\* extractAudio: analyzeRateOfFire(currentFile)
TimerFires(t) ==
    /\ t \in timers
    /\ t.left = 0
    /\ Len(runs) < MaxRuns
    /\ timers' = timers \ {t}
    /\ runs' = Append(runs, Started(Val(currentFile)))
    /\ started' = started + 1
    /\ UNCHANGED << ffmpegFiles, currentFile, currentResults, uiParams,
                    reanalysisTimeout, timersSet, events, closeEvents, elapsed,
                    detectorVars, callVars >>

----------------------------------------------------------------------------
\* Inputs

\* all sequences over S of length 0..n
SeqsUpTo(S, n) == UNION {[1..m -> S] : m \in 0..n}

\* the sample sequences the decoder delivers in Spec: silence and full-scale
\* samples, at least one sample long
Recordings == SeqsUpTo({0, One}, MaxLen) \ {<< >>}

\* recordings of isolated one-sample impulses in silence
Trains ==
    {s \in [1..TrainLen -> {0, One}] :
        \A k \in 1..(TrainLen - 1) : ~(s[k] = One /\ s[k + 1] = One)}

\* the options of the detectors of Spec (times in ticks, fractions at scale One)
SpecOptions ==
    [peakThresholdStd |-> {One},
     minShotSpacing |-> {0},
     burstGapThreshold |-> {2},
     windowSize |-> {2},
     minPeakProminence |-> {One \div 2},
     minBurstCount |-> {1, 2}]

\* the options of the detectors of AnalyzeSpec
AnalyzeOptions ==
    [peakThresholdStd |-> {0},
     minShotSpacing |-> {0, 4},
     burstGapThreshold |-> {2, 4},
     windowSize |-> {1},
     minPeakProminence |-> {One \div 2},
     minBurstCount |-> {1, 2, 3}]

\* the options of the idle detector of PeakSpec
IdleOptions ==
    [peakThresholdStd |-> {One},
     minShotSpacing |-> {0},
     burstGapThreshold |-> {2},
     windowSize |-> {0},
     minPeakProminence |-> {0},
     minBurstCount |-> {2}]

\* the data handed to findPeaks: every short sequence, every sequence of
\* three spikes in silence, and the impulse [0,0,0,1,0,0,0]
FindPeaksData ==
    SeqsUpTo(0..MaxValue, MaxData)
        \cup {<< 0, a, 0, b, 0, c, 0 >> : a \in 0..MaxValue, b \in 0..MaxValue,
                                          c \in 0..MaxValue}
        \cup {<< 0, 0, 0, 2, 0, 0, 0 >>}

FindPeaksArgs ==
    [data : FindPeaksData, height : 0..(MaxValue + 1), distance : 0..3,
     prominence : {0, One \div 2}]

\* the sample values of the signals handed to convolve and to the envelope
SampleValues == {-One, 0, One}

\* the tap values of the kernels handed to convolve: 0, 1/3, 1/2 and 1
TapValues == {0, One \div 3, One \div 2, One}

ConvolveArgs ==
    [signal : SeqsUpTo(SampleValues, MaxSignal),
     kernel : SeqsUpTo(TapValues, MaxKernel),
     mode : {"same", "full"}]

\* the sample sequences the decoder delivers in EnvelopeSpec: samples of
\* either sign, at least one sample long
Signals == SeqsUpTo(SampleValues, MaxSignal) \ {<< >>}

\* the options of the detectors of EnvelopeSpec: windows of 0 to 3 ticks
EnvelopeOptions ==
    [peakThresholdStd |-> {One},
     minShotSpacing |-> {0},
     burstGapThreshold |-> {2},
     windowSize |-> {0, 1, 2, 3},
     minPeakProminence |-> {0},
     minBurstCount |-> {2}]

\* the files selected on the page in PageSpec: two recordings of different
\* content
Files == {"a.mp4", "b.mp4"}

----------------------------------------------------------------------------
\* Spec: one detector, its methods invoked in any order

\* no direct call of a signal-processing function has been made
NoCalls ==
    /\ fpArgs = Null
    /\ fpResult = Null
    /\ cvArgs = Null
    /\ cvResult = Null

Fresh ==
    /\ last = Returned("constructor")
    /\ burstResults = << >>
    /\ summary = Null
    /\ completed = {}
    /\ NoCalls
    /\ PageIdle

Init ==
    /\ Constructed(SpecOptions)
    /\ contextRate \in SampleRates
    /\ Fresh

Next ==
    \/ \E samples \in Recordings : ExtractAudio(samples)
    \/ CalculateEnvelope
    \/ DetectPeaks
    \/ GroupIntoBursts
    \/ CalculateRates
    \/ GenerateSummary

Spec == Init /\ [][Next]_vars

----------------------------------------------------------------------------
\* AnalyzeSpec: analyze(file, ffmpeg) on a new detector, stage by stage

AnalyzeInit ==
    /\ Constructed(AnalyzeOptions)
    /\ contextRate \in SampleRates
    /\ Fresh

analyze ==
    \/ last = Returned("constructor") /\ \E samples \in Trains : ExtractAudio(samples)
    \/ last = Returned("extractAudio") /\ CalculateEnvelope
    \/ last = Returned("calculateEnvelope") /\ DetectPeaks
    \/ last = Returned("detectPeaks") /\ GroupIntoBursts
    \/ last = Returned("groupIntoBursts") /\ CalculateRates
    \/ last = Returned("calculateRates") /\ GenerateSummary

AnalyzeSpec == AnalyzeInit /\ [][analyze]_vars

----------------------------------------------------------------------------
\* PeakSpec: signal.findPeaks called on its own

PeakInit ==
    /\ Constructed(IdleOptions)
    /\ contextRate = 10
    /\ last = Returned("constructor")
    /\ burstResults = << >>
    /\ summary = Null
    /\ completed = {}
    /\ fpArgs \in FindPeaksArgs
    /\ fpResult = Null
    /\ cvArgs = Null
    /\ cvResult = Null
    /\ PageIdle

CallFindPeaks ==
    /\ fpResult = Null
    /\ fpResult' = Some(findPeaks(fpArgs.data, fpArgs.height, fpArgs.distance,
                                  fpArgs.prominence))
    /\ UNCHANGED << detectorVars, fpArgs, cvArgs, cvResult, pageVars >>

PeakSpec == PeakInit /\ [][CallFindPeaks]_vars

----------------------------------------------------------------------------
\* ConvolveSpec: signal.convolve called on its own

ConvolveInit ==
    /\ Constructed(IdleOptions)
    /\ contextRate = 10
    /\ last = Returned("constructor")
    /\ burstResults = << >>
    /\ summary = Null
    /\ completed = {}
    /\ fpArgs = Null
    /\ fpResult = Null
    /\ cvArgs \in ConvolveArgs
    /\ cvResult = Null
    /\ PageIdle

\* convolve(signal, kernel, mode): any mode but 'same' throws
CallConvolve ==
    /\ cvResult = Null
    /\ cvResult' = IF cvArgs.mode = "same"
                   THEN Some([outcome |-> "returned",
                              result |-> convolve(cvArgs.signal, cvArgs.kernel)])
                   ELSE Some([outcome |-> "threw", result |-> << >>])
    /\ UNCHANGED << detectorVars, fpArgs, fpResult, cvArgs, pageVars >>

ConvolveSpec == ConvolveInit /\ [][CallConvolve]_vars

----------------------------------------------------------------------------
\* EnvelopeSpec: extractAudio followed by calculateEnvelope, on a new detector

EnvelopeInit ==
    /\ Constructed(EnvelopeOptions)
    /\ contextRate \in SampleRates
    /\ Fresh

envelopeOf ==
    \/ last = Returned("constructor") /\ \E samples \in Signals : ExtractAudio(samples)
    \/ last = Returned("extractAudio") /\ CalculateEnvelope

EnvelopeSpec == EnvelopeInit /\ [][envelopeOf]_vars

----------------------------------------------------------------------------
\* PageSpec: files selected on the page, each analysis run advancing from
\* one await to the next in any interleaving with the others

PageInit ==
    /\ Constructed(IdleOptions)
    /\ contextRate = 10
    /\ last = Returned("constructor")
    /\ burstResults = << >>
    /\ summary = Null
    /\ completed = {}
    /\ NoCalls
    /\ PageIdle

PageNext ==
    \/ \E file \in Files : HandleFile(file)
    \/ \E r \in 1..Len(runs) : WriteFile(r)
    \/ \E r \in 1..Len(runs) : Exec(r)
    \/ \E r \in 1..Len(runs) : ReadFile(r)
    \/ \E r \in 1..Len(runs) : DecodeAudioData(r)
    \/ \E r \in 1..Len(runs) : DeleteInput(r)
    \/ \E r \in 1..Len(runs) : DeleteOutput(r)
    \/ \E r \in 1..Len(runs) : Finish(r)
    \/ \E value \in ParamValues : InputEvent(value)
    \/ BlurEvent
    \/ Tick
    \/ \E t \in timers : TimerFires(t)

PageSpec == PageInit /\ [][PageNext]_vars

\* DebounceSpec: file selections, parameter events and the re-analysis timer.
\* The steps of the analyses themselves are those of PageSpec: none of them
\* reads or writes the timer or the current file.  Time goes on while a timer
\* is set, and a timer that is due fires (the event loop runs its callback).

DebounceNext ==
    \/ \E file \in Files : HandleFile(file)
    \/ \E value \in ParamValues : InputEvent(value)
    \/ BlurEvent
    \/ Tick
    \/ \E t \in timers : TimerFires(t)

DebounceSpec ==
    /\ PageInit
    /\ [][DebounceNext]_vars
    /\ WF_vars(Tick)
    /\ WF_vars(\E t \in timers : TimerFires(t))

----------------------------------------------------------------------------
\* Properties of the pipeline stages (Spec)

\* C1: every stage rejects being invoked before its predecessor completed:
\* groupIntoBursts fails when detectPeaks has not completed, and calculateRates
\* fails when groupIntoBursts has not completed for the current shot list.
C1_OutOfOrderRejected ==
    /\ (last.op = "groupIntoBursts" /\ "detectPeaks" \notin completed)
           => last.outcome = "threw"
    /\ (last.op = "calculateRates" /\ "groupIntoBursts" \notin completed)
           => last.outcome = "threw"

\* C2: a calculateEnvelope step taken while the samples or the sample rate are
\* not set, and a detectPeaks step taken while no envelope exists, ends in an
\* error and leaves envelope, shotTimes and bursts as they were.
C2_NotReadyLeavesState ==
    [][ /\ (last'.op = "calculateEnvelope" /\ (audioData = Null \/ Falsy(sampleRate)))
               => /\ last'.outcome = "threw"
                  /\ envelope' = envelope /\ shotTimes' = shotTimes /\ bursts' = bursts
        /\ (last'.op = "detectPeaks" /\ envelope = Null)
               => /\ last'.outcome = "threw"
                  /\ envelope' = envelope /\ shotTimes' = shotTimes /\ bursts' = bursts
      ]_vars

\* C2 witness: detectPeaks was invoked with audio loaded but no envelope, and threw
C2_Witness ==
    /\ last = Threw("detectPeaks")
    /\ audioData # Null
    /\ envelope = Null

\* C3: whenever groupIntoBursts has returned on a detector whose shot list is
\* empty, the burst list is empty.
C3_EmptyShotsEmptyBursts ==
    (last = Returned("groupIntoBursts") /\ shotTimes = << >>) => bursts = << >>

----------------------------------------------------------------------------
\* Properties of burst grouping (AnalyzeSpec)

\* groupIntoBursts has run on the current, non-empty shot list
Grouped == "groupIntoBursts" \in completed /\ shotTimes # << >>

\* the gap between shot i-1 and shot i
Gap(i) == At(shotTimes, i) - At(shotTimes, i - 1)

\* the indices a..z form a maximal run: no gap inside exceeds the threshold,
\* and the run cannot be extended on either side
MaximalRun(a, z) ==
    /\ \A i \in (a + 1)..z : Gap(i) <= burstGapThreshold
    /\ a = 0 \/ Gap(a) > burstGapThreshold
    /\ z = Len(shotTimes) - 1 \/ Gap(z + 1) > burstGapThreshold

\* burst is the list of the indices a..z
IsRun(burst, a, z) ==
    /\ Len(burst) = z - a + 1
    /\ \A k \in 1..Len(burst) : burst[k] = a + k - 1

\* the set of shot indices in a burst
ShotsOf(burst) == {burst[k] : k \in 1..Len(burst)}

\* C4: after groupIntoBursts on a non-empty shot list every burst is
\* non-empty, has at least minBurstCount shots, and consecutive shots in it
\* are no more than burstGapThreshold apart.
C4_BurstInvariant ==
    Grouped =>
        \A b \in 1..Len(bursts) :
            /\ Len(bursts[b]) >= 1
            /\ Len(bursts[b]) >= minBurstCount
            /\ \A k \in 2..Len(bursts[b]) :
                   ShotTime(bursts[b][k]) - ShotTime(bursts[b][k - 1])
                       <= burstGapThreshold

\* C4 witness: two bursts kept under minBurstCount 3, one of more than 3 shots
C4_Witness ==
    /\ Grouped
    /\ minBurstCount = 3
    /\ Len(bursts) = 2
    /\ \E b \in 1..Len(bursts) : Len(bursts[b]) > 3

\* C5: the shot list is split exactly at the gaps above burstGapThreshold: the
\* burst list is the list of the maximal runs of at least minBurstCount shots,
\* in order; a gap equal to the threshold does not split.
C5_SplitsAtGaps ==
    Grouped =>
        /\ \A b \in 1..Len(bursts) :
               /\ IsRun(bursts[b], bursts[b][1], bursts[b][Len(bursts[b])])
               /\ MaximalRun(bursts[b][1], bursts[b][Len(bursts[b])])
        /\ \A a \in 0..(Len(shotTimes) - 1) : \A z \in a..(Len(shotTimes) - 1) :
               (MaximalRun(a, z) /\ z - a + 1 >= minBurstCount)
                   => \E b \in 1..Len(bursts) : IsRun(bursts[b], a, z)
        /\ \A i \in 1..(Len(shotTimes) - 1) :
               (\E b \in 1..Len(bursts) : {i - 1, i} \subseteq ShotsOf(bursts[b]))
                   => Gap(i) <= burstGapThreshold

\* C5 witness: six shots, one gap above the threshold and a gap equal to it,
\* minBurstCount 3: two bursts of three shots each
C5_Witness ==
    /\ Grouped
    /\ Len(shotTimes) = 6
    /\ minBurstCount = 3
    /\ bursts = << << 0, 1, 2 >>, << 3, 4, 5 >> >>
    /\ Gap(3) > burstGapThreshold
    /\ Gap(1) = burstGapThreshold

\* the size of the group (maximal run) shot i falls in
GroupSize(i) ==
    Cardinality({j \in 0..(Len(shotTimes) - 1) :
        \A m \in ((IF i < j THEN i ELSE j) + 1)..(IF i < j THEN j ELSE i) :
            Gap(m) <= burstGapThreshold})

\* the shot indices that are in some burst
Retained == UNION {ShotsOf(bursts[b]) : b \in 1..Len(bursts)}

\* C6: a group closed with fewer than minBurstCount shots is discarded whole,
\* at an interior close and at the final close: none of its shots is in a
\* burst; every shot index is in at most one burst; the bursts are contiguous
\* index runs, each ending before the next starts.
C6_DiscardedWhole ==
    Grouped =>
        /\ \A i \in 0..(Len(shotTimes) - 1) :
               GroupSize(i) < minBurstCount => i \notin Retained
        /\ \A i \in 0..(Len(shotTimes) - 1) :
               Cardinality({<< b, k >> \in (1..Len(bursts)) \X (1..Len(shotTimes)) :
                   k <= Len(bursts[b]) /\ bursts[b][k] = i}) <= 1
        /\ \A b \in 1..Len(bursts) :
               IsRun(bursts[b], bursts[b][1], bursts[b][Len(bursts[b])])
        /\ \A b \in 1..(Len(bursts) - 1) :
               /\ bursts[b][Len(bursts[b])] < bursts[b + 1][1]
               /\ ShotTime(bursts[b][Len(bursts[b])]) < ShotTime(bursts[b + 1][1])

\* C6 witness: a kept burst, an undersized interior group after it that was
\* discarded, another kept burst, and an undersized final group discarded
C6_Witness ==
    /\ Grouped
    /\ minBurstCount >= 2
    /\ Len(bursts) = 2
    /\ bursts[2][1] - bursts[1][Len(bursts[1])] > 1
    /\ (Len(shotTimes) - 1) \notin Retained

----------------------------------------------------------------------------
\* Properties of findPeaks (PeakSpec)

\* findPeaks has returned
Called == fpResult # Null

\* the returned peak indices, as a set
PeakSet == {Val(fpResult).peaks[k] : k \in 1..Len(Val(fpResult).peaks)}

\* the indices that passed the height and prominence filters, as a set
Candidates ==
    LET c == ProminenceFiltered(fpArgs.data, fpArgs.height, fpArgs.prominence)
    IN  {c[k] : k \in 1..Len(c)}

Close(i, j) == MathAbs(i - j) < fpArgs.distance

\* C7 as claimed: of two candidates closer than distance with different
\* heights, the shorter is never returned while the taller is absent.
C7_TallerAlwaysWins ==
    Called =>
        \A i \in Candidates : \A j \in Candidates :
            (Close(i, j) /\ At(fpArgs.data, i) > At(fpArgs.data, j))
                => ~(j \in PeakSet /\ i \notin PeakSet)

\* C7 amended: of two candidates closer than distance with different heights,
\* the shorter is returned while the taller is absent only if another returned
\* peak, at least as tall as the taller, lies closer than distance to the
\* taller; and every candidate that is not returned has a returned peak at
\* least as tall closer than distance to it.
C7_TallerWinsUnlessSuppressed ==
    Called =>
        /\ \A i \in Candidates : \A j \in Candidates :
               (Close(i, j) /\ At(fpArgs.data, i) > At(fpArgs.data, j)
                    /\ j \in PeakSet /\ i \notin PeakSet)
                   => \E q \in PeakSet \ {j} :
                          Close(q, i) /\ At(fpArgs.data, q) >= At(fpArgs.data, i)
        /\ \A c \in Candidates \ PeakSet :
               \E q \in PeakSet : Close(q, c) /\ At(fpArgs.data, q) >= At(fpArgs.data, c)

\* C7 witness: the shorter of two close candidates comes first and is dropped
\* for the taller one
C7_Witness ==
    /\ Called
    /\ \E i \in Candidates : \E j \in Candidates :
           /\ j < i /\ Close(i, j)
           /\ At(fpArgs.data, i) > At(fpArgs.data, j)
           /\ i \in PeakSet /\ j \notin PeakSet

\* C8: of two candidates of equal height closer than distance, with no other
\* candidate closer than distance to either, exactly the lower-index one is
\* returned.
C8_EqualHeightsKeepFirst ==
    Called =>
        \A i \in Candidates : \A j \in Candidates :
            (/\ i < j /\ Close(i, j)
             /\ At(fpArgs.data, i) = At(fpArgs.data, j)
             /\ \A c \in Candidates \ {i, j} : ~Close(c, i) /\ ~Close(c, j))
                => (i \in PeakSet /\ j \notin PeakSet)

\* C8 witness: findPeaks([0,1,0,1,0], {height: 0.5, distance: 3, prominence: 0})
\* returned the single peak 1 (0.5 rounded up to the integer grid of the data)
C8_Witness ==
    /\ fpArgs = [data |-> << 0, 1, 0, 1, 0 >>, height |-> 1, distance |-> 3,
                 prominence |-> 0]
    /\ fpResult = Some([peaks |-> << 1 >>, heights |-> << 1 >>])

\* C9: the returned indices are strictly increasing, any two differ by at
\* least distance, and heights pairs each index with the data value there.
C9_PeaksOrdered ==
    Called =>
        LET peaks == Val(fpResult).peaks
            heights == Val(fpResult).heights
        IN  /\ \A k \in 1..(Len(peaks) - 1) : peaks[k] < peaks[k + 1]
            /\ \A k \in 1..Len(peaks) : \A l \in 1..Len(peaks) :
                   k # l => MathAbs(peaks[k] - peaks[l]) >= fpArgs.distance
            /\ Len(heights) = Len(peaks)
            /\ \A k \in 1..Len(peaks) : heights[k] = At(fpArgs.data, peaks[k])

\* C9 witness: three returned peaks under distance 2, the first lower than the
\* second, so that acceptance order and index order differ
C9_Witness ==
    /\ Called
    /\ fpArgs.distance = 2
    /\ Len(Val(fpResult).peaks) = 3
    /\ Val(fpResult).heights[1] < Val(fpResult).heights[2]

\* i is a strict local maximum of the data, away from both ends, of at least
\* the height asked for
StrictMaximum(i) ==
    /\ 1 <= i /\ i <= Len(fpArgs.data) - 2
    /\ At(fpArgs.data, i) > At(fpArgs.data, i - 1)
    /\ At(fpArgs.data, i) > At(fpArgs.data, i + 1)
    /\ At(fpArgs.data, i) >= fpArgs.height

\* C10: every returned index is a strict local maximum in 1..n-2 of at least
\* the height; fewer than 3 samples give no peaks; with prominence 0 and
\* distance <= 1 the result is exactly the set of those indices.
C10_StrictLocalMaxima ==
    Called =>
        /\ \A i \in PeakSet : StrictMaximum(i)
        /\ Len(fpArgs.data) < 3 => Val(fpResult) = [peaks |-> << >>, heights |-> << >>]
        /\ (fpArgs.prominence = 0 /\ fpArgs.distance <= 1)
               => PeakSet = {i \in 0..(Len(fpArgs.data) - 1) : StrictMaximum(i)}

\* C10 witness: findPeaks([0,0,0,1,0,0,0], {height: 0.5, distance: 1,
\* prominence: 0}) returned exactly [3] (the impulse is 2 grid units high, the
\* height 1 unit)
C10_Witness ==
    /\ fpArgs = [data |-> << 0, 0, 0, 2, 0, 0, 0 >>, height |-> 1, distance |-> 1,
                 prominence |-> 0]
    /\ fpResult = Some([peaks |-> << 3 >>, heights |-> << 2 >>])

----------------------------------------------------------------------------
\* Properties of the prominence filter (PeakSpec)

\* the indices that passed the height filter, as a set
HeightCandidates ==
    LET c == HeightFiltered(fpArgs.data, fpArgs.height)
    IN  {c[k] : k \in 1..Len(c)}

\* the nearest index left of i holding a sample >= data[i], or the first
\* index of the data when there is none
LeftStop(i) ==
    LET stops == {l \in 0..(i - 1) : At(fpArgs.data, l) >= At(fpArgs.data, i)}
    IN  IF stops = {} THEN 0
        ELSE CHOOSE l \in stops : \A m \in stops : m <= l

\* the nearest index right of i holding a sample >= data[i], or the last
\* index of the data when there is none
RightStop(i) ==
    LET stops == {l \in (i + 1)..(Len(fpArgs.data) - 1) :
                      At(fpArgs.data, l) >= At(fpArgs.data, i)}
    IN  IF stops = {} THEN Len(fpArgs.data) - 1
        ELSE CHOOSE l \in stops : \A m \in stops : l <= m

\* the least of data[i] and the samples at the indices a..z
LeastWith(i, a, z) ==
    LET seen == {At(fpArgs.data, i)} \cup {At(fpArgs.data, m) : m \in a..z}
    IN  CHOOSE v \in seen : \A w \in seen : v <= w

\* data[i] - max(leftMin, rightMin) >= prominence * max(data), at scale One
Prominent(i) ==
    (At(fpArgs.data, i)
         - MathMax(LeastWith(i, LeftStop(i), i - 1), LeastWith(i, i + 1, RightStop(i))))
        * One >= fpArgs.prominence * max(fpArgs.data)

\* C11: with prominence > 0 a height-filtered candidate i passes the
\* prominence filter iff data[i] - max(leftMin, rightMin) >= prominence *
\* max(data), leftMin and rightMin being the least values from i to the
\* nearest sample >= data[i] (or the end) on each side; with prominence 0 the
\* filter removes nothing; when no candidate is left the call returns the
\* empty peak set.  With distance <= 1 the returned peaks are the survivors.
C11_ProminenceFilter ==
    Called =>
        \A expected \in {IF fpArgs.prominence > 0
                          THEN {i \in HeightCandidates : Prominent(i)}
                          ELSE HeightCandidates} :
            /\ Candidates = expected
            /\ PeakSet \subseteq expected
            /\ fpArgs.distance <= 1 => PeakSet = expected
            /\ expected = {} => Val(fpResult) = [peaks |-> << >>, heights |-> << >>]

\* C11 witness: findPeaks([0,3,1,2,0], {height: 0, distance: 1, prominence:
\* 0.5}) kept index 1 (prominence 3) and dropped index 3 (prominence 2 - 1,
\* the left minimum 1 being the higher of its two side minima)
C11_Witness ==
    /\ fpArgs = [data |-> << 0, 3, 1, 2, 0 >>, height |-> 0, distance |-> 1,
                 prominence |-> One \div 2]
    /\ HeightCandidates = {1, 3}
    /\ fpResult = Some([peaks |-> << 1 >>, heights |-> << 3 >>])

----------------------------------------------------------------------------
\* Properties of the rates and the summary (AnalyzeSpec)

\* generateSummary has returned: the summary of this analysis is known
Summarised == last = Returned("generateSummary")

PooledTimes == {At(shotTimes, i) : i \in Retained}

\* the largest and the least of a non-empty set of times
Latest(times) == CHOOSE t \in times : \A u \in times : u <= t
Earliest(times) == CHOOSE t \in times : \A u \in times : t <= u

\* C13: over a non-empty burst list totalShots is the number of shots in
\* bursts, totalBursts the number of bursts, and overallRateRpm is
\* (P - 1) / (maxTime - minTime) * 60 over the P retained shots when P >= 2 and
\* 0 otherwise; discarded shots count in neither.
C13_SummaryTotals ==
    (Summarised /\ Len(bursts) > 0)
        => LET P == Cardinality(Retained)
           IN  /\ Val(summary).totalShots = P
               /\ Val(summary).totalShots =
                      SumSeq([b \in 1..Len(bursts) |-> Len(bursts[b])])
               /\ Val(summary).totalBursts = Len(bursts)
               /\ Val(summary).overallRateRpm =
                      IF P >= 2
                      THEN Rat((P - 1) * 60 * TicksPerSecond,
                               Latest(PooledTimes) - Earliest(PooledTimes))
                      ELSE Rat(0, 1)

\* C13 witness: a summary over two bursts with a discarded shot lying between
\* them
C13_Witness ==
    /\ Summarised
    /\ Len(bursts) = 2
    /\ \E i \in 0..(Len(shotTimes) - 1) :
           /\ i \notin Retained
           /\ \E a \in Retained : a < i
           /\ \E z \in Retained : i < z
    /\ Val(summary).totalShots = Len(shotTimes) - 1

\* calculateRates has returned in this analysis
Rated == last \in {Returned("calculateRates"), Returned("generateSummary")}

\* C14: calculateRates reports one entry per burst, numbered 1..N in burst
\* order, with duration = last shot time - first shot time, numShots = the
\* number of shots, and rateRpm = (numShots - 1) / duration * 60 when duration
\* > 0, else 0; 5 shots spanning 0.4 s give 600.
C14_BurstRates ==
    Rated =>
        /\ Len(burstResults) = Len(bursts)
        /\ \A b \in 1..Len(bursts) :
               LET first == At(shotTimes, bursts[b][1])
                   final == At(shotTimes, bursts[b][Len(bursts[b])])
                   info == burstResults[b]
               IN  /\ info.burstNumber = b
                   /\ info.duration = final - first
                   /\ info.numShots = Len(bursts[b])
                   /\ info.rateRpm =
                          IF final - first > 0
                          THEN Rat((Len(bursts[b]) - 1) * 60 * TicksPerSecond,
                                   final - first)
                          ELSE Rat(0, 1)
                   /\ (info.numShots = 5 /\ info.duration * 10 = 4 * TicksPerSecond)
                          => info.rateRpm = Rat(600, 1)

\* C14 witness: a burst of 5 shots spanning 0.4 s reported with 600 shots per
\* minute, as the second of two bursts
C14_Witness ==
    /\ Rated
    /\ Len(burstResults) = 2
    /\ burstResults[2].burstNumber = 2
    /\ burstResults[2].numShots = 5
    /\ burstResults[2].duration * 10 = 4 * TicksPerSecond
    /\ burstResults[2].rateRpm = [num |-> 600, den |-> 1]

\* C15: when the analysis ends with no retained burst, calculateRates has
\* returned the empty list and generateSummary a summary whose fields are all
\* 0.
C15_ZeroBursts ==
    (Summarised /\ Len(bursts) = 0)
        => /\ burstResults = << >>
           /\ Val(summary).totalShots = 0
           /\ Val(summary).totalBursts = 0
           /\ Val(summary).overallRateRpm = Rat(0, 1)
           /\ Val(summary).meanBurstRateRpm = Rat(0, 1)
           /\ Val(summary).medianBurstRateRpm = Rat(0, 1)
           /\ Val(summary).minBurstRateRpm = Rat(0, 1)
           /\ Val(summary).maxBurstRateRpm = Rat(0, 1)
           /\ Val(summary).stdBurstRateRpm = 0

\* C15 witness: shots were detected, every group was discarded, and the
\* summary was returned
C15_Witness ==
    /\ Summarised
    /\ Len(shotTimes) >= 2
    /\ bursts = << >>
    /\ Val(summary).totalBursts = 0

\* a number of seconds held in float32 units is at most burstGapThreshold
\* (ticks): x / 2^FloatUnitBits <= burstGapThreshold / TicksPerSecond, both
\* sides divided by 4
WithinGapThreshold(x) ==
    x.den # 0
        /\ x.num * (TicksPerSecond \div 4)
               <= burstGapThreshold * Pow2(FloatUnitBits - 2) * x.den

\* C20: with minBurstCount >= 2 every burst reported by the pipeline has
\* duration > 0, rateRpm > 0 and 0 < minInterval <= meanInterval <=
\* maxInterval <= burstGapThreshold; a burst of duration 0 and rateRpm 0 is
\* reported only with minBurstCount = 1.
C20_IntervalsWithinThreshold ==
    Rated =>
        \A b \in 1..Len(burstResults) :
            LET info == burstResults[b]
            IN  /\ minBurstCount >= 2 =>
                       /\ info.duration > 0
                       /\ Less(Rat(0, 1), info.rateRpm)
                       /\ Less(Rat(0, 1), info.minInterval)
                       /\ ~Less(info.meanInterval, info.minInterval)
                       /\ ~Less(info.maxInterval, info.meanInterval)
                       /\ WithinGapThreshold(info.maxInterval)
                /\ (info.duration = 0 \/ info.rateRpm = Rat(0, 1))
                       => (minBurstCount = 1 /\ info.numShots = 1)

----------------------------------------------------------------------------
\* Properties of convolve (ConvolveSpec)

\* convolve has been called in mode 'same' and has returned
Convolved ==
    /\ cvResult # Null
    /\ cvArgs.mode = "same"
    /\ Val(cvResult).outcome = "returned"

\* the taps j of output index i whose shifted index lies inside the signal
TapsInBounds(i) ==
    {j \in 0..(Len(cvArgs.kernel) - 1) :
        /\ i - (Len(cvArgs.kernel) \div 2) + j >= 0
        /\ i - (Len(cvArgs.kernel) \div 2) + j <= Len(cvArgs.signal) - 1}

\* the sum of signal[i - floor(k/2) + j] * kernel[j] over the taps j in taps
RECURSIVE TapSum(_, _)
TapSum(i, taps) ==
    IF taps = {} THEN 0
    ELSE LET j == CHOOSE t \in taps : TRUE
         IN  (At(cvArgs.signal, i - (Len(cvArgs.kernel) \div 2) + j)
                  * At(cvArgs.kernel, j)) \div One
                 + TapSum(i, taps \ {j})

\* C17: in mode 'same' convolve returns a sequence as long as the signal whose
\* element i is the sum of signal[i - floor(k/2) + j] * kernel[j] over exactly
\* the taps j whose shifted index is inside the signal, for every kernel
\* length (even, longer than the signal); the kernel [1] returns the signal.
C17_ConvolveSame ==
    (cvResult # Null /\ cvArgs.mode = "same") =>
        /\ Val(cvResult).outcome = "returned"
        /\ Len(Val(cvResult).result) = Len(cvArgs.signal)
        /\ \A i \in 0..(Len(cvArgs.signal) - 1) :
               At(Val(cvResult).result, i) = TapSum(i, TapsInBounds(i))
        /\ cvArgs.kernel = << One >> => Val(cvResult).result = cvArgs.signal

\* C17 witness: convolve([1, -1], [1, 0.5, 1], 'same'), a kernel longer than
\* the signal, returned [0.5 - 1, 1 - 0.5]; and an even kernel is covered by
\* convolve([1, 0, -1], [1, 0.5]) = [0.5, 1, -0.5] in the same state space
C17_Witness ==
    /\ Convolved
    /\ cvArgs.signal = << One, -One >>
    /\ cvArgs.kernel = << One, One \div 2, One >>
    /\ Val(cvResult).result = << (One \div 2) - One, One - (One \div 2) >>

\* signal[idx] of the signal extended with zeros on both sides
Padded(idx) ==
    IF idx >= 0 /\ idx <= Len(cvArgs.signal) - 1 THEN At(cvArgs.signal, idx) ELSE 0

\* output i of the convolution of the zero-padded signal: all k taps summed
ZeroPaddedSum(i) ==
    SumSeq([jj \in 1..Len(cvArgs.kernel) |->
               (Padded(i - (Len(cvArgs.kernel) \div 2) + (jj - 1))
                    * cvArgs.kernel[jj]) \div One])

\* the signal is a non-zero constant and the kernel a box of length k > 1
ConstantWithBox ==
    /\ Len(cvArgs.signal) >= 1
    /\ cvArgs.signal[1] # 0
    /\ \A k \in 1..Len(cvArgs.signal) : cvArgs.signal[k] = cvArgs.signal[1]
    /\ Len(cvArgs.kernel) > 1
    /\ \A k \in 1..Len(cvArgs.kernel) : cvArgs.kernel[k] = One \div Len(cvArgs.kernel)

\* the output indices at which some tap falls outside the signal
EdgeIndices ==
    {i \in 0..(Len(cvArgs.signal) - 1) :
        Cardinality(TapsInBounds(i)) < Len(cvArgs.kernel)}

\* C18 as claimed: for a non-zero constant signal and a box kernel of length
\* k > 1 the output at some edge index differs from the zero-padded sum.
C18_DroppingDiffersFromPadding ==
    (Convolved /\ ConstantWithBox) =>
        \E i \in EdgeIndices : At(Val(cvResult).result, i) # ZeroPaddedSum(i)

\* C18 amended: at every index the output equals the sum over all k taps of
\* the zero-padded signal (a dropped tap would add 0); for a non-zero constant
\* signal c and a box kernel of length k > 1 the output at an edge index with
\* m taps in bounds is c * m / k, not c: what dropping differs from is an
\* average over the taps in bounds.
C18_DroppingEqualsPadding ==
    Convolved =>
        /\ \A i \in 0..(Len(cvArgs.signal) - 1) :
               At(Val(cvResult).result, i) = ZeroPaddedSum(i)
        /\ ConstantWithBox =>
               \A i \in EdgeIndices :
                   /\ At(Val(cvResult).result, i) * Len(cvArgs.kernel)
                          = cvArgs.signal[1] * Cardinality(TapsInBounds(i))
                   /\ At(Val(cvResult).result, i) # cvArgs.signal[1]

\* C18 witness: convolve([1, 1, 1], [1/3, 1/3, 1/3]) returned [2/3, 1, 2/3]
C18_Witness ==
    /\ Convolved
    /\ cvArgs.signal = << One, One, One >>
    /\ cvArgs.kernel = << One \div 3, One \div 3, One \div 3 >>
    /\ Val(cvResult).result = << 2 * (One \div 3), One, 2 * (One \div 3) >>
    /\ EdgeIndices = {0, 2}

----------------------------------------------------------------------------
\* Properties of the envelope (EnvelopeSpec)

\* the number of taps of a window of k samples centred (as convolve centres
\* it) on index i of n samples that fall inside the samples
TapsInside(i, k, n) ==
    Cardinality({j \in 0..(k - 1) : i - (k \div 2) + j >= 0 /\ i - (k \div 2) + j <= n - 1})

\* the envelope env is the one claimed for the samples x, window of k samples
EnvelopeAsClaimed(x, env, k) ==
    /\ Len(env) = Len(x)
    /\ \A i \in 1..Len(env) : env[i] >= 0
    /\ k = 1 => \A i \in 1..Len(x) : env[i] = MathAbs(x[i])
    /\ (k > 1 /\ \A i \in 1..Len(x) : x[i] = x[1]) =>
           \A i \in 0..(Len(x) - 1) :
               /\ At(env, i) * k = MathAbs(x[1]) * TapsInside(i, k, Len(x))
               /\ TapsInside(i, k, Len(x)) = k => At(env, i) = MathAbs(x[1])

\* C19: calculateEnvelope leaves the samples as they were and yields an
\* envelope of the same length, non-negative, built with windowSamples =
\* max(1, floor(windowSize * sampleRate)): the elementwise absolute value for
\* windowSamples = 1, and for a constant signal c and windowSamples k > 1 the
\* value |c| where all k taps are in bounds and |c| * m / k where only m are.
C19_EnvelopeShape ==
    [][last' = Returned("calculateEnvelope") =>
           /\ audioData' = audioData
           /\ EnvelopeAsClaimed(Val(audioData), Val(envelope'),
                  MathMax((windowSize * Val(sampleRate)) \div TicksPerSecond, 1))]_vars

\* C19 witness: samples [-1, -1, -1] under a window of 3 samples gave the
\* envelope [2/3, 1, 2/3]
C19_Witness ==
    /\ last = Returned("calculateEnvelope")
    /\ audioData = Some(<< -One, -One, -One >>)
    /\ windowSize * Val(sampleRate) = 3 * TicksPerSecond
    /\ envelope = Some(<< 2 * (One \div 3), One, 2 * (One \div 3) >>)

----------------------------------------------------------------------------
\* Properties of concurrent analysis runs (PageSpec)

\* the runs started so far are all on different files
DifferentFiles ==
    \A r \in 1..Len(runs) : \A q \in 1..Len(runs) :
        r # q => runs[r].file # runs[q].file

\* C16: analysis runs in progress at the same time on different files are
\* independent: under every interleaving of their steps no run fails, the
\* samples a run's detector holds are those of the run's own file, and so is
\* its result.
C16_RunsIndependent ==
    DifferentFiles =>
        \A r \in 1..Len(runs) :
            /\ runs[r].pc # "failed"
            /\ runs[r].audioData # Null => Val(runs[r].audioData) = runs[r].file
            /\ runs[r].result # Null => Val(runs[r].result).samplesOf = runs[r].file

----------------------------------------------------------------------------
\* Properties of the stored result (PageSpec)

\* every analysis started so far has finished with a result computed from
\* its own file's samples, and no re-analysis timer is set
AllFinished ==
    /\ Len(runs) > 0
    /\ timers = {}
    /\ \A r \in 1..Len(runs) :
        /\ runs[r].pc = "done"
        /\ Val(runs[r].result).samplesOf = runs[r].file

\* C21: once every started analysis has finished, currentResults (what is
\* displayed and what the JSON export downloads) is the result of the most
\* recently started analysis, that is of the latest file with the latest
\* parameters: an analysis started earlier never overwrites the result of one
\* started later.
C21_LatestAnalysisWins ==
    AllFinished =>
        /\ currentResults = runs[Len(runs)].result
        /\ Val(currentResults).inputFile = Val(currentFile)
        /\ Val(currentResults).parameters = uiParams

----------------------------------------------------------------------------
\* Properties of the re-analysis timer (DebounceSpec)

\* at most one timer is set, and it is the one reanalysisTimeout names; none
\* is set while no file has been selected; at most one re-analysis has
\* started since the last parameter event
OneTimer ==
    /\ Cardinality(timers) <= 1
    /\ \A t \in timers : reanalysisTimeout = Some(t.id)
    /\ currentFile = Null => timers = {} /\ reanalysisTimeout = Null
    /\ started <= 1

\* a step of a parameter event with a file selected leaves exactly the timer
\* it sets, due a full delay later, and without a file it sets none; a step
\* that starts a re-analysis is taken a full delay after the last parameter
\* event or later
DebounceStep ==
    /\ events' # events =>
        IF currentFile = Null THEN timers' = {} /\ timersSet' = timersSet
        ELSE /\ timersSet' = timersSet + 1
             /\ timers' = {[id |-> timersSet', left |-> ReanalysisDelay]}
    /\ timersSet' # timersSet => events' # events /\ currentFile # Null
    /\ started' # started /\ events' = events =>
        /\ elapsed = ReanalysisDelay
        /\ started' = 1
        /\ timers' = {}
        /\ Len(runs') = Len(runs) + 1
        /\ runs'[Len(runs')] = Started(Val(currentFile))

\* C22: re-analysis is debounced: at any time at most one re-analysis timer
\* is pending; each parameter input or blur event cancels the pending timer
\* and starts a new one, so a run of parameter events each less than 500 ms
\* after the previous one starts exactly one re-analysis, after the last
\* event; and no re-analysis is ever scheduled while no file has been loaded.
C22_Debounced ==
    /\ []OneTimer
    /\ [][DebounceStep]_vars
    /\ (timers # {}) ~> (timers = {} /\ started = 1)

\* two parameter events less than the delay apart have each set a timer, and
\* one re-analysis has started since, a full delay after the second
C22_Witness ==
    /\ closeEvents = 2
    /\ timersSet = 2
    /\ timers = {}
    /\ started = 1
    /\ Len(runs) = 2
    /\ runs[2].params = uiParams

====
